---- MODULE Spec2Model ----
(***************************************************************************)
(* Model of main.py: the SyftBox app that reads patterns.json from the     *)
(* datasite owner's semi-public folder, keeps the Protoss patterns, counts *)
(* them per strategy type and writes public/protoss_summary.json.          *)
(*                                                                         *)
(* A Python str is modelled as the sequence of its characters, so that     *)
(* str.lower() is computed character by character.  A JSON value is a      *)
(* record [type, val]; a JSON object's val is a function from its keys.    *)
(* A file is a record [state, text, closed]: the text of the output file   *)
(* is the sequence of top-level members json.dump has written so far, and  *)
(* closed says that the document was written to its end.                   *)
(***************************************************************************)
EXTENDS Integers, Sequences, FiniteSets, TLC

\* ------------------------------------------------------------------ bounds
\* Largest number of records in patterns.json.
MaxRecords == 3
\* Number of times the app is run in sequence on the same datasite.
MaxRuns == 2

\* ------------------------------------------------------------ JSON values
JNull == [type |-> "null", val |-> <<>>]
JStr(s) == [type |-> "string", val |-> s]
JArr(a) == [type |-> "array", val |-> a]
JObj(m) == [type |-> "object", val |-> m]

\* The empty mapping (a dict with no keys).
EmptyMap == [k \in {} |-> 0]

\* Python str literals that occur in main.py, as character sequences.
STR_protoss == <<"p", "r", "o", "t", "o", "s", "s">>
STR_unknown == <<"u", "n", "k", "n", "o", "w", "n">>
STR_empty == <<>>

\* Strings of the input domain.
STR_Protoss == <<"P", "r", "o", "t", "o", "s", "s">>
STR_PROTOSS == <<"P", "R", "O", "T", "O", "S", "S">>
STR_Terran == <<"T", "e", "r", "r", "a", "n">>
STR_rush == <<"r", "u", "s", "h">>
STR_economic_expansion ==
    <<"e", "c", "o", "n", "o", "m", "i", "c", "_",
      "e", "x", "p", "a", "n", "s", "i", "o", "n">>

\* --------------------------------------------------------- Python helpers
UpperLetters ==
    <<"A", "B", "C", "D", "E", "F", "G", "H", "I", "J", "K", "L", "M",
      "N", "O", "P", "Q", "R", "S", "T", "U", "V", "W", "X", "Y", "Z">>
LowerLetters ==
    <<"a", "b", "c", "d", "e", "f", "g", "h", "i", "j", "k", "l", "m",
      "n", "o", "p", "q", "r", "s", "t", "u", "v", "w", "x", "y", "z">>

\* str.lower() on one character.
LowerChar(c) ==
    IF \E i \in 1..Len(UpperLetters) : UpperLetters[i] = c
    THEN LowerLetters[CHOOSE i \in 1..Len(UpperLetters) : UpperLetters[i] = c]
    ELSE c

\* str.lower()
Lower(s) == [i \in 1..Len(s) |-> LowerChar(s[i])]

\* bool(v) of a value loaded from JSON.
Truthy(v) ==
    CASE v.type = "null" -> FALSE
      [] v.type = "string" -> v.val # <<>>
      [] v.type = "array" -> v.val # <<>>
      [] v.type = "object" -> DOMAIN v.val # {}

\* (v or default)
OrDefault(v, default) == IF Truthy(v) THEN v ELSE default

\* entry.get(key): None when the key is absent.
DictGet(entry, key) ==
    IF key \in DOMAIN entry.val THEN entry.val[key] ELSE JNull

\* (entry.get("race") or "")
RaceOf(entry) == OrDefault(DictGet(entry, "race"), JStr(STR_empty))

\* Variant: entry.get("strategy_type") without the default.
StrategyOf_NoDefault(entry) == DictGet(entry, "strategy_type")

\* (entry.get("strategy_type") or "unknown")
StrategyOf(entry) == OrDefault(DictGet(entry, "strategy_type"), JStr(STR_unknown))

\* Variant: the race is compared as written, without .lower().
IsProtoss_CaseSensitive(entry) == RaceOf(entry).val = STR_protoss

\* The condition of the dict comprehension of step 5.
IsProtoss(entry) == Lower(RaceOf(entry).val) = STR_protoss

\* The comprehension of step 5 raises AttributeError when patterns has no
\* .items(), an entry has no .get(), or a truthy race has no .lower().
FilterRaises(pats) ==
    \/ pats.type # "object"
    \/ \E id \in DOMAIN pats.val : pats.val[id].type # "object"
    \/ \E id \in DOMAIN pats.val : RaceOf(pats.val[id]).type # "string"

\* protoss_patterns = {pattern_id: entry for ... if ... == "protoss"}
FilterProtoss(pats) ==
    [id \in {i \in DOMAIN pats.val : IsProtoss(pats.val[i])} |-> pats.val[id]]

\* Counter(...) hashes its elements: a list or a dict raises TypeError.
CounterRaises(pp) ==
    \E id \in DOMAIN pp : StrategyOf(pp[id]).type \in {"array", "object"}

\* Variant: the labels are collected in a set and each counted once.
StrategyCounter_Distinct(pp) ==
    [label \in {StrategyOf(pp[id]).val : id \in DOMAIN pp} |-> 1]

\* Counter((entry.get("strategy_type") or "unknown") for entry in ...)
StrategyCounter(pp) ==
    [label \in {StrategyOf(pp[id]).val : id \in DOMAIN pp} |->
        Cardinality({id \in DOMAIN pp : StrategyOf(pp[id]).val = label})]

\* Variant: the total is taken from the filtered records.
BuildResult_TotalIsFiltered(pats, pp, breakdown) ==
    << <<"total_patterns_in_dataset", Cardinality(DOMAIN pp)>>,
       <<"protoss_pattern_count", Cardinality(DOMAIN pp)>>,
       <<"protoss_strategy_breakdown", breakdown>> >>

\* Variant: the breakdown is keyed by pattern id.
BuildResult_KeyedById(pats, pp, breakdown) ==
    << <<"total_patterns_in_dataset", Cardinality(DOMAIN pats.val)>>,
       <<"protoss_pattern_count", Cardinality(DOMAIN pp)>>,
       <<"protoss_strategy_breakdown", [id \in DOMAIN pp |-> 1]>> >>

\* Variant: the result also lists example patterns.
BuildResult_WithExamples(pats, pp, breakdown) ==
    << <<"total_patterns_in_dataset", Cardinality(DOMAIN pats.val)>>,
       <<"protoss_pattern_count", Cardinality(DOMAIN pp)>>,
       <<"protoss_strategy_breakdown", breakdown>>,
       <<"example_protoss_patterns", <<>> >> >>

\* The result dict of step 7, as its items in insertion order.
BuildResult(pats, pp, breakdown) ==
    << <<"total_patterns_in_dataset", Cardinality(DOMAIN pats.val)>>,
       <<"protoss_pattern_count", Cardinality(DOMAIN pp)>>,
       <<"protoss_strategy_breakdown", breakdown>> >>

\* ------------------------------------------------------------------ files
NoFile == [state |-> "absent", text |-> <<>>, closed |-> FALSE]
FileOf(t, c) == [state |-> "file", text |-> t, closed |-> c]

\* json.load of the text of patterns.json raises JSONDecodeError on text that
\* is not JSON.
JsonLoadRaises(file) == file.text.syntax # "json"
JsonLoad(file) == file.text.value

\* A local variable of main() that is not bound yet.
Unbound == [type |-> "unbound", val |-> <<>>]

\* ----------------------------------------------------------- input domain
\* Record ids (pattern_001, ...), shortened to p1, p2, ...
AllIds == << <<"p", "1">>, <<"p", "2">>, <<"p", "3">>, <<"p", "4">>, <<"p", "5">> >>
PatternIds == {AllIds[i] : i \in 1..MaxRecords}

\* signature: the build order of a pattern, private data.
Signature ==
    JObj([opening_sequence |->
        JArr(<< JObj([unit |-> JStr(<<"P", "r", "o", "b", "e">>),
                     time |-> JStr(<<"0", ":", "1", "2">>)]) >>)])

\* Marks a key that the record does not have.
Absent == [type |-> "absent", val |-> <<>>]

\* A record with the given race and strategy_type; Absent leaves the key out.
Entry(race, strategy) ==
    JObj([k \in {"signature"}
            \cup (IF race = Absent THEN {} ELSE {"race"})
            \cup (IF strategy = Absent THEN {} ELSE {"strategy_type"}) |->
          CASE k = "signature" -> Signature
            [] k = "race" -> race
            [] k = "strategy_type" -> strategy])

\* The records of the input domain: the three records of the scenario, the
\* spellings of the race, a race or strategy_type that is absent, null or
\* empty, and records that are not of the expected structure.
Entries ==
    {Entry(JStr(STR_Protoss), JStr(STR_economic_expansion)),
     Entry(JStr(STR_Terran), JStr(STR_rush)),
     Entry(JStr(STR_protoss), Absent),
     Entry(JStr(STR_PROTOSS), JNull),
     Entry(JStr(STR_Protoss), JStr(STR_empty)),
     Entry(JStr(STR_protoss), JStr(STR_rush)),
     Entry(Absent, JStr(STR_rush)),
     Entry(JNull, JStr(STR_economic_expansion)),
     JStr(STR_rush),
     Entry(JArr(<<JStr(STR_protoss)>>), Absent),
     Entry(JStr(STR_protoss), JArr(<<JStr(STR_rush)>>))}

Datasets == UNION {[S -> Entries] : S \in SUBSET PatternIds}

InputFiles ==
    {NoFile,
     FileOf([syntax |-> "invalid", value |-> JNull], TRUE),
     FileOf([syntax |-> "json", value |-> JArr(<<>>)], TRUE)}
    \cup {FileOf([syntax |-> "json", value |-> JObj(d)], TRUE) : d \in Datasets}

\* What public/protoss_summary.json may hold before the first run.
StaleText ==
    << <<"total_patterns_in_dataset", 9>>,
       <<"protoss_pattern_count", 9>>,
       <<"protoss_strategy_breakdown", [label \in {STR_rush} |-> 9]>> >>
PriorOutputs ==
    {[dir |-> FALSE, file |-> NoFile],
     [dir |-> TRUE, file |-> NoFile],
     [dir |-> TRUE, file |-> FileOf(StaleText, TRUE)]}

\* ------------------------------------------------------------------ state
VARIABLES
    inputFile,           \* patterns.json at patterns_path
    outDir,              \* whether output_path.parent exists
    outFile,             \* protoss_summary.json at output_path
    pc,                  \* position of main()
    error,               \* the exception main() raised, "" when none
    patterns,            \* local: the loaded dataset
    protoss_patterns,    \* local
    strategy_breakdown,  \* local
    result,              \* local
    prior,               \* the files when the current run started, and how
                         \* the run before it ended
    runs                 \* number of runs started

vars == <<inputFile, outDir, outFile, pc, error, patterns, protoss_patterns,
          strategy_breakdown, result, prior, runs>>

locals == <<patterns, protoss_patterns, strategy_breakdown, result>>
disk == <<inputFile, outDir, outFile>>

Init ==
    /\ inputFile \in InputFiles
    /\ \E p \in PriorOutputs : outDir = p.dir /\ outFile = p.file
    /\ pc = "check_exists"
    /\ error = ""
    /\ patterns = Unbound
    /\ protoss_patterns = Unbound
    /\ strategy_breakdown = Unbound
    /\ result = Unbound
    /\ prior = [dir |-> outDir, file |-> outFile, input |-> inputFile, ended |-> "none"]
    /\ runs = 1

\* raise: the exception leaves main() and ends the process.
Raise(e) == pc' = "raised" /\ error' = e

\* Variant: the public folder is created before the input is looked for.
CheckExists_MkdirFirst ==
    /\ pc = "check_exists"
    /\ outDir' = TRUE
    /\ IF inputFile.state = "absent"
       THEN Raise("FileNotFoundError")
       ELSE pc' = "load" /\ error' = error
    /\ UNCHANGED <<inputFile, outFile, locals, prior, runs>>

\* if not patterns_path.exists(): raise FileNotFoundError(...)
CheckExists ==
    /\ pc = "check_exists"
    /\ IF inputFile.state = "absent"
       THEN Raise("FileNotFoundError")
       ELSE pc' = "load" /\ error' = error
    /\ UNCHANGED <<disk, locals, prior, runs>>

\* with patterns_path.open("r") as f: patterns = json.load(f)
Load ==
    /\ pc = "load"
    /\ IF inputFile.state = "absent"
       THEN Raise("FileNotFoundError") /\ patterns' = patterns
       ELSE IF JsonLoadRaises(inputFile)
       THEN Raise("JSONDecodeError") /\ patterns' = patterns
       ELSE pc' = "filter" /\ error' = error /\ patterns' = JsonLoad(inputFile)
    /\ UNCHANGED <<disk, protoss_patterns, strategy_breakdown, result, prior, runs>>

\* Variant: a dataset the comprehension cannot walk is taken as empty.
Filter_Lenient ==
    /\ pc = "filter"
    /\ pc' = "count"
    /\ error' = error
    /\ protoss_patterns' =
          IF FilterRaises(patterns) THEN EmptyMap ELSE FilterProtoss(patterns)
    /\ UNCHANGED <<disk, patterns, strategy_breakdown, result, prior, runs>>

\* step 5
Filter ==
    /\ pc = "filter"
    /\ IF FilterRaises(patterns)
       THEN Raise("AttributeError") /\ protoss_patterns' = protoss_patterns
       ELSE pc' = "count" /\ error' = error
            /\ protoss_patterns' = FilterProtoss(patterns)
    /\ UNCHANGED <<disk, patterns, strategy_breakdown, result, prior, runs>>

\* step 6
Count ==
    /\ pc = "count"
    /\ IF CounterRaises(protoss_patterns)
       THEN Raise("TypeError") /\ strategy_breakdown' = strategy_breakdown
       ELSE pc' = "result" /\ error' = error
            /\ strategy_breakdown' = StrategyCounter(protoss_patterns)
    /\ UNCHANGED <<disk, patterns, protoss_patterns, result, prior, runs>>

\* step 7
Result ==
    /\ pc = "result"
    /\ result' = BuildResult(patterns, protoss_patterns, strategy_breakdown)
    /\ pc' = "mkdir"
    /\ UNCHANGED <<disk, error, patterns, protoss_patterns, strategy_breakdown, prior, runs>>

\* step 8: output_path.parent.mkdir(parents=True, exist_ok=True).  Creating
\* a missing directory may fail (OSError); an existing one is accepted.
Mkdir ==
    /\ pc = "mkdir"
    /\ \/ pc' = "open" /\ error' = error /\ outDir' = TRUE
       \/ ~outDir /\ Raise("OSError") /\ outDir' = outDir
    /\ UNCHANGED <<inputFile, outFile, locals, prior, runs>>

\* Variant: the file is opened for appending ("a").
Open_Append ==
    /\ pc = "open"
    /\ \/ pc' = "dump" /\ error' = error /\ outFile' = FileOf(outFile.text, FALSE)
       \/ Raise("OSError") /\ outFile' = outFile
    /\ UNCHANGED <<inputFile, outDir, locals, prior, runs>>

\* output_path.open("w"): creates the file or truncates it to length 0.
\* A failing open (OSError) leaves the file as it is.
Open ==
    /\ pc = "open"
    /\ \/ pc' = "dump" /\ error' = error /\ outFile' = FileOf(<<>>, FALSE)
       \/ Raise("OSError") /\ outFile' = outFile
    /\ UNCHANGED <<inputFile, outDir, locals, prior, runs>>

\* json.dump(result, f, indent=2) and the close at the end of the with block,
\* then the print.  The document is written member by member after what the
\* opened file holds; a failing write or flush (OSError) leaves the members
\* written so far.
Dump ==
    /\ pc = "dump"
    /\ \/ pc' = "done" /\ error' = error
          /\ outFile' = FileOf(outFile.text \o result, TRUE)
       \/ \E n \in 0..Len(result) :
             /\ Raise("OSError")
             /\ outFile' = FileOf(outFile.text \o SubSeq(result, 1, n), FALSE)
    /\ UNCHANGED <<inputFile, outDir, locals, prior, runs>>

\* The app is run again on the same datasite: a new process, new locals.
Rerun ==
    /\ pc \in {"done", "raised"}
    /\ runs < MaxRuns
    /\ runs' = runs + 1
    /\ pc' = "check_exists"
    /\ error' = ""
    /\ patterns' = Unbound
    /\ protoss_patterns' = Unbound
    /\ strategy_breakdown' = Unbound
    /\ result' = Unbound
    /\ prior' = [dir |-> outDir, file |-> outFile, input |-> inputFile, ended |-> pc]
    /\ UNCHANGED disk

Next ==
    \/ CheckExists
    \/ Load
    \/ Filter
    \/ Count
    \/ Result
    \/ Mkdir
    \/ Open
    \/ Dump
    \/ Rerun

Spec == Init /\ [][Next]_vars

\* =================================================================
\* What the claims speak of, stated independently of the code above
\* =================================================================

\* The dataset D: the records of patterns.json when it holds a mapping.
Dataset == inputFile.text.value.val

\* The mapping a consumer's json.load reads from a file: of two members with
\* the same key the last one counts.
ReadSummary(file) ==
    [k \in {file.text[i][1] : i \in 1..Len(file.text)} |->
        LET last == CHOOSE i \in 1..Len(file.text) :
                      /\ file.text[i][1] = k
                      /\ \A j \in 1..Len(file.text) : file.text[j][1] = k => j <= i
        IN file.text[last][2]]

\* The Summary that public/protoss_summary.json holds.
Summary == ReadSummary(outFile)

AggregateKeys ==
    {"total_patterns_in_dataset", "protoss_pattern_count", "protoss_strategy_breakdown"}

\* Two characters that are the same letter in either case.
SameLetter(a, b) ==
    \/ a = b
    \/ \E i \in 1..Len(UpperLetters) : {a, b} = {UpperLetters[i], LowerLetters[i]}

SameIgnoringCase(s, t) ==
    /\ Len(s) = Len(t)
    /\ \A i \in 1..Len(s) : SameLetter(s[i], t[i])

\* The category of a record: its race, the empty string when absent or null.
CategoryOf(rec) ==
    IF "race" \in DOMAIN rec.val /\ rec.val["race"].type = "string"
    THEN rec.val["race"].val
    ELSE STR_empty

\* The ids of the records Filter(D, "protoss") keeps.
ProtossIds == {id \in DOMAIN Dataset : SameIgnoringCase(CategoryOf(Dataset[id]), STR_protoss)}

\* The subtype of a record, "unknown" when the field is missing (absent or null).
SubtypeOrUnknown(rec) ==
    IF "strategy_type" \in DOMAIN rec.val /\ rec.val["strategy_type"].type = "string"
    THEN rec.val["strategy_type"].val
    ELSE STR_unknown

\* The same, with the empty string counted as missing too.
SubtypeOrUnknownOrEmpty(rec) ==
    IF SubtypeOrUnknown(rec) = STR_empty THEN STR_unknown ELSE SubtypeOrUnknown(rec)

\* The labels a breakdown is asked about.
LabelUniverse ==
    {STR_unknown, STR_empty, STR_rush, STR_economic_expansion}
    \cup {SubtypeOrUnknown(Dataset[id]) : id \in DOMAIN Dataset}

\* bd counts, for every label, the filtered records that LabelOf gives it.
BreakdownCounts(bd, LabelOf(_)) ==
    /\ DOMAIN bd \subseteq LabelUniverse
    /\ \A L \in LabelUniverse :
         LET n == Cardinality({id \in ProtossIds : LabelOf(Dataset[id]) = L})
         IN IF n = 0 THEN L \notin DOMAIN bd ELSE L \in DOMAIN bd /\ bd[L] = n

RECURSIVE SumValues(_, _)
SumValues(f, S) ==
    IF S = {} THEN 0
    ELSE LET x == CHOOSE y \in S : TRUE IN f[x] + SumValues(f, S \ {x})

Min(a, b) == IF a <= b THEN a ELSE b

\* The Summary of the dataset that the claims C2, C3 (as amended) and C5 describe.
ExpectedSummary ==
    [k \in AggregateKeys |->
        CASE k = "total_patterns_in_dataset" -> Cardinality(DOMAIN Dataset)
          [] k = "protoss_pattern_count" -> Cardinality(ProtossIds)
          [] k = "protoss_strategy_breakdown" ->
               [L \in {SubtypeOrUnknownOrEmpty(Dataset[id]) : id \in ProtossIds} |->
                   Cardinality({id \in ProtossIds :
                                  SubtypeOrUnknownOrEmpty(Dataset[id]) = L})]]

\* file is a complete document whose members are exactly those of summary.
IsDocumentOf(file, summary) ==
    /\ file.state = "file"
    /\ file.closed
    /\ Len(file.text) = Cardinality(DOMAIN summary)
    /\ ReadSummary(file) = summary

\* The records of the scenario of the specification.
HasRecord(race, strategy) ==
    \E id \in DOMAIN Dataset : Dataset[id] = Entry(race, strategy)

ScenarioDataset ==
    /\ Cardinality(DOMAIN Dataset) = 3
    /\ HasRecord(JStr(STR_Protoss), JStr(STR_economic_expansion))
    /\ HasRecord(JStr(STR_Terran), JStr(STR_rush))
    /\ HasRecord(JStr(STR_protoss), Absent)

\* -----------------------------------------------------------------
\* C1: the Summary main() writes has exactly the aggregate keys (and at most
\* the optional example_protoss_patterns); its two counts are numbers, and
\* its breakdown maps labels to numbers, where every label is the subtype of
\* a record (or "unknown") and no label is a record id.
C1_SummaryIsAggregateOnly ==
    pc = "done" =>
        /\ AggregateKeys \subseteq DOMAIN Summary
        /\ DOMAIN Summary \subseteq AggregateKeys \cup {"example_protoss_patterns"}
        /\ Summary["total_patterns_in_dataset"] \in Nat
        /\ Summary["protoss_pattern_count"] \in Nat
        /\ \A L \in DOMAIN Summary["protoss_strategy_breakdown"] :
             /\ L \notin DOMAIN Dataset
             /\ L \in {SubtypeOrUnknown(Dataset[id]) : id \in DOMAIN Dataset} \cup {STR_unknown}
             /\ Summary["protoss_strategy_breakdown"][L] \in Nat

C1_Witness ==
    /\ pc = "done"
    /\ Cardinality(DOMAIN Dataset) = 3
    /\ Cardinality(DOMAIN Summary["protoss_strategy_breakdown"]) = 2

\* -----------------------------------------------------------------
\* C2: protoss_pattern_count is the number of records whose race, compared
\* without regard to case, is "protoss"; an absent or null race counts as
\* the empty string and never matches.
C2_CountIsCaseInsensitive ==
    pc = "done" => Summary["protoss_pattern_count"] = Cardinality(ProtossIds)

C2_Witness ==
    /\ pc = "done"
    /\ \E id \in DOMAIN Dataset : CategoryOf(Dataset[id]) = STR_PROTOSS
    /\ \E id \in DOMAIN Dataset : CategoryOf(Dataset[id]) = STR_Terran
    /\ \E id \in DOMAIN Dataset : "race" \notin DOMAIN Dataset[id].val
    /\ Summary["protoss_pattern_count"] = 1

\* -----------------------------------------------------------------
\* C3 as claimed: protoss_strategy_breakdown[L] is the number of filtered
\* records whose subtype, "unknown" when missing, is L; a label with no such
\* record does not appear.
C3_BreakdownByMissingAsUnknown ==
    pc = "done" => BreakdownCounts(Summary["protoss_strategy_breakdown"], SubtypeOrUnknown)

\* C3 as amended: the same, with a subtype that is missing, null or the
\* empty string replaced by "unknown".
C3_BreakdownByFalsyAsUnknown ==
    pc = "done" =>
        BreakdownCounts(Summary["protoss_strategy_breakdown"], SubtypeOrUnknownOrEmpty)

C3_Witness ==
    /\ pc = "done"
    /\ ScenarioDataset
    /\ DOMAIN Summary["protoss_strategy_breakdown"] = {STR_economic_expansion, STR_unknown}
    /\ Summary["protoss_strategy_breakdown"][STR_economic_expansion] = 1
    /\ Summary["protoss_strategy_breakdown"][STR_unknown] = 1

\* -----------------------------------------------------------------
\* C4: the values of protoss_strategy_breakdown add up to
\* protoss_pattern_count.
C4_BreakdownSumsToCount ==
    pc = "done" =>
        SumValues(Summary["protoss_strategy_breakdown"],
                  DOMAIN Summary["protoss_strategy_breakdown"])
            = Summary["protoss_pattern_count"]

C4_Witness ==
    /\ pc = "done"
    /\ Summary["protoss_pattern_count"] = 3
    /\ \E L \in DOMAIN Summary["protoss_strategy_breakdown"] :
         Summary["protoss_strategy_breakdown"][L] = 2

\* -----------------------------------------------------------------
\* C5: total_patterns_in_dataset is the number of records of the dataset,
\* whatever their category.
C5_TotalIsRecordCount ==
    pc = "done" => Summary["total_patterns_in_dataset"] = Cardinality(DOMAIN Dataset)

C5_Witness ==
    /\ pc = "done"
    /\ Summary["total_patterns_in_dataset"] = 3
    /\ Summary["protoss_pattern_count"] = 1

\* -----------------------------------------------------------------
\* C6: with patterns.json absent the run ends in FileNotFoundError without
\* reaching any later step, and the output directory and file stay as they
\* were when the run started.
C6_MissingInputLeavesOutput ==
    inputFile.state = "absent" =>
        /\ pc \in {"check_exists", "raised"}
        /\ pc = "raised" => error = "FileNotFoundError"
        /\ outDir = prior.dir
        /\ outFile = prior.file

C6_Witness ==
    /\ inputFile.state = "absent"
    /\ pc = "raised"
    /\ error = "FileNotFoundError"
    /\ ~outDir

\* -----------------------------------------------------------------
\* C7: once a run has ended, the output file is either a complete correct
\* Summary of the input or exactly what it was before the run.
C7_OutputCompleteOrUntouched ==
    pc \in {"done", "raised"} =>
        \/ outFile = prior.file
        \/ IsDocumentOf(outFile, ExpectedSummary)

\* -----------------------------------------------------------------
\* C8: with patterns.json present but malformed (not JSON, not a mapping at
\* the top, or a record that is not an object) the run fails while loading
\* or filtering, and the output directory and file stay as they were.
Malformed ==
    /\ inputFile.state = "file"
    /\ \/ inputFile.text.syntax = "invalid"
       \/ inputFile.text.value.type # "object"
       \/ \E id \in DOMAIN Dataset : Dataset[id].type # "object"

C8_MalformedInputLeavesOutput ==
    Malformed =>
        /\ pc \in {"check_exists", "load", "filter", "raised"}
        /\ pc = "raised" => error \in {"JSONDecodeError", "AttributeError"}
        /\ outDir = prior.dir
        /\ outFile = prior.file

C8_Witness ==
    /\ pc = "raised"
    /\ error = "AttributeError"
    /\ inputFile.text.value.type = "object"
    /\ \E id \in DOMAIN Dataset : Dataset[id].type # "object"
    /\ outFile = FileOf(StaleText, TRUE)

\* -----------------------------------------------------------------
\* C9: at every step of a run patterns.json is as it was when the run
\* started; when a run succeeds the output
\* file is the document of the Summary of the dataset, whatever the output
\* location held before; and a successful run that follows a successful run
\* leaves the file as that one left it.
C9_OutputDependsOnInputOnly ==
    /\ inputFile = prior.input
    /\ pc = "done" =>
         /\ IsDocumentOf(outFile, ExpectedSummary)
         /\ prior.ended = "done" => outFile = prior.file

C9_Witness ==
    /\ pc = "done"
    /\ runs = 2
    /\ prior.ended = "done"
    /\ Summary["protoss_pattern_count"] = 2

\* -----------------------------------------------------------------
\* C10 as claimed: the Summary has an examples list of length
\* min(10, protoss_pattern_count).
C10_ExamplesLength ==
    pc = "done" =>
        /\ "example_protoss_patterns" \in DOMAIN Summary
        /\ Len(Summary["example_protoss_patterns"])
             = Min(10, Summary["protoss_pattern_count"])

\* C10 as amended: the Summary main() writes has no examples list, whatever
\* the number of filtered records.
C10_NoExamples ==
    pc = "done" => "example_protoss_patterns" \notin DOMAIN Summary

C10_Witness ==
    /\ pc = "done"
    /\ Summary["protoss_pattern_count"] = 2
    /\ DOMAIN Summary = AggregateKeys

====
